---------------------------- MODULE Spec2Model ----------------------------
(***************************************************************************)
(* Model of niri-launcher's "vim sync" pass (src/src/lib.rs sync_vim,      *)
(* src/src/vim.rs, src/src/pstree.rs): process-tree building, discovery of *)
(* the editor's RPC socket, window collection and column clustering, the   *)
(* width calculation and the resize action sent to the compositor.         *)
(***************************************************************************)
EXTENDS Integers, Sequences, FiniteSets, TLC

VARIABLES
    pc,                 \* position of the pass
    base_window,        \* LaunchingData.base_window (None, or its id and pid)
    nentries,           \* /proc entries consumed by get_process_records
    records,            \* Vec<ProcessRecord> collected so far
    tree,               \* root node built by build_process_tree, or NoTree
    sockets,            \* pids whose /run/user/<uid>/nvim.<pid>.0 accepts
    session,            \* result of try_session_from (with its attempts)
    nvim,               \* the Neovim client of Vim::new
    wins,               \* windows calculate_columns has converted so far
    columns,            \* Vec<WinColumn>
    bufopts,            \* editor replies to the 'textwidth' queries, per window
    column_width_koeff, \* Vim.column_width_koeff, in tenths
    sent,               \* requests written to the compositor socket
    printed,            \* what vim.test() printed
    log,                \* fallible steps taken so far, with their outcome
    result              \* what the pass returned

vars == <<pc, base_window, nentries, records, tree, sockets, session, nvim,
          wins, columns, bufopts, column_width_koeff, sent, printed, log,
          result>>

-----------------------------------------------------------------------------
(* Bounds of the model *)

MaxPid == 3
MaxProcs == 2
MaxPos == 2
MaxWidth == 3
MaxWins == 4
MaxClusterPos == 3
MaxPassWins == 2

Pids == 1..MaxPid

WindowIds == {7}

None == [some |-> FALSE]
NoTree == [built |-> FALSE]
NoSession == [tried |-> FALSE]
Running == [state |-> "running"]

-----------------------------------------------------------------------------
(* Small helpers *)

Max(a, b) == IF a >= b THEN a ELSE b

Min(a, b) == IF a <= b THEN a ELSE b

Event(op, ok) == [op |-> op, ok |-> ok]

Ok == [state |-> "ok"]

Err(op) == [state |-> "err", op |-> op]

Panic(op) == [state |-> "panic", op |-> op]

-----------------------------------------------------------------------------
(* pstree.rs: the process tree *)

\* Option<i32> is a sequence of length 0 or 1.
Some(x) == <<x>>

ProcessRecord(pid, ppid) == [pid |-> pid, ppid |-> ppid]

ProcessTreeNode_new(record) == [record |-> record, children |-> <<>>]

\* What one entry of /proc can be when get_process_records looks at it.
\*   vanished:   the entry is gone when fs::metadata(entry_path) runs
\*   not_dir:    a plain file such as /proc/uptime
\*   no_status:  a directory without a readable status file
\*   unopenable: status passed the metadata check but File::open fails
\*   status:     a status file, with the Pid and PPid fields it yields
ProcEntries ==
    {[kind |-> k] : k \in {"vanished", "not_dir", "no_status", "unopenable"}}
    \cup {[kind |-> "status", pid |-> p, ppid |-> q] :
            p \in {<<>>} \cup {Some(x) : x \in Pids},
            q \in {<<>>} \cup {Some(x) : x \in 0..MaxPid}}

\* get_process_record: Some(record) when both fields parsed, else None.
get_process_record(status) ==
    IF status.pid # <<>> /\ status.ppid # <<>>
    THEN Some(ProcessRecord(status.pid[1], status.ppid[1]))
    ELSE <<>>

\* The closure of get_process_records for one entry: a panic of one of its
\* unwrap calls, or the Option the filter_map receives.
process_entry(e) ==
    CASE e.kind = "vanished" -> [panic |-> TRUE, rec |-> <<>>]
      [] e.kind = "not_dir" -> [panic |-> FALSE, rec |-> <<>>]
      [] e.kind = "no_status" -> [panic |-> FALSE, rec |-> <<>>]
      [] e.kind = "unopenable" -> [panic |-> TRUE, rec |-> <<>>]
      [] OTHER -> [panic |-> FALSE, rec |-> get_process_record(e)]

\* The pids reachable from p by following ppid links of recs, at most n links.
RECURSIVE AncestorsOf(_, _, _)
AncestorsOf(recs, ps, n) ==
    IF n = 0 THEN ps
    ELSE LET up == {recs[i].ppid : i \in {j \in 1..Len(recs) : recs[j].pid \in ps}}
         IN  AncestorsOf(recs, ps \cup up, n - 1)

\* A snapshot of a real process table has no process that is its own ancestor.
NoCycle(recs) ==
    \A i \in 1..Len(recs) :
        recs[i].pid \notin AncestorsOf(recs, {recs[i].ppid}, Len(recs))

\* ppid_map.get(&pid): the pids of the records naming pid as parent, in the
\* order the records were pushed.
ppid_map_get(recs, pid) ==
    LET kids == SelectSeq(recs, LAMBDA r : r.ppid = pid)
    IN  [i \in 1..Len(kids) |-> kids[i].pid]

\* pid_map[child_pid]: HashMap::insert keeps the last record of a pid.
pid_map_get(recs, pid) ==
    LET is == {i \in 1..Len(recs) : recs[i].pid = pid}
    IN  recs[CHOOSE i \in is : \A j \in is : j <= i]

\* populate_node_helper: the children of the node carrying pid.
RECURSIVE populate_node_helper(_, _)
populate_node_helper(pid, recs) ==
    LET children == ppid_map_get(recs, pid)
    IN  [i \in 1..Len(children) |->
            [record |-> pid_map_get(recs, children[i]),
             children |-> populate_node_helper(children[i], recs)]]

\* build_process_tree, had it populated the root only when some record
\* carries the root's pid.
build_process_tree_known_root(pid, recs) ==
    [ProcessTreeNode_new(ProcessRecord(pid, -1))
        EXCEPT !.children =
            IF \E i \in 1..Len(recs) : recs[i].pid = pid
            THEN populate_node_helper(pid, recs)
            ELSE <<>>]

\* build_process_tree(Some(pid)), given the records already read.
build_process_tree(pid, recs) ==
    [ProcessTreeNode_new(ProcessRecord(pid, -1))
        EXCEPT !.children = populate_node_helper(pid, recs)]

-----------------------------------------------------------------------------
(* vim.rs: session discovery *)

\* Session::new_unix_socket on the socket path of a pid.
new_unix_socket(pid, path, socks) ==
    IF pid \in socks
    THEN [ok |-> TRUE, pid |-> pid, at |-> path, attempts |-> <<path>>]
    ELSE [ok |-> FALSE, pid |-> pid, at |-> path, attempts |-> <<path>>]

\* try_session_from and the fold over node.children inside it. A result is the
\* session (ok) or the error, each tagged with the node (path from the root)
\* and pid whose connection attempt produced it; attempts lists the nodes whose
\* socket was tried, in order.
RECURSIVE try_session_from(_, _, _)
RECURSIVE fold_children(_, _, _, _, _)
RECURSIVE fold_children_keep_first_error(_, _, _, _, _)
RECURSIVE fold_children_no_stop(_, _, _, _, _)
RECURSIVE fold_children_reversed(_, _, _, _, _)

\* fold_children, had the closure kept the accumulated error when a child
\* fails (res.or_else(|err| child.map_err(|_| err))).
fold_children_keep_first_error(node, path, socks, i, res) ==
    IF i > Len(node.children) THEN res
    ELSE IF res.ok
         THEN fold_children_keep_first_error(node, path, socks, i + 1, res)
         ELSE LET r == try_session_from(node.children[i], Append(path, i), socks)
              IN  fold_children_keep_first_error(node, path, socks, i + 1,
                    IF r.ok
                    THEN [r EXCEPT !.attempts = res.attempts \o r.attempts]
                    ELSE [res EXCEPT !.attempts = res.attempts \o r.attempts])

\* fold_children, had the closure tried every child whatever the accumulator
\* holds (a later success replaces an earlier one).
fold_children_no_stop(node, path, socks, i, res) ==
    IF i > Len(node.children) THEN res
    ELSE LET r == try_session_from(node.children[i], Append(path, i), socks)
         IN  fold_children_no_stop(node, path, socks, i + 1,
               IF r.ok \/ ~res.ok
               THEN [r EXCEPT !.attempts = res.attempts \o r.attempts]
               ELSE [res EXCEPT !.attempts = res.attempts \o r.attempts])

\* fold_children, had it iterated node.children from the last to the first.
fold_children_reversed(node, path, socks, i, res) ==
    IF i > Len(node.children) THEN res
    ELSE IF res.ok
         THEN fold_children_reversed(node, path, socks, i + 1, res)
         ELSE LET k == Len(node.children) - i + 1
                  r == try_session_from(node.children[k], Append(path, k), socks)
              IN  fold_children_reversed(node, path, socks, i + 1,
                    [r EXCEPT !.attempts = res.attempts \o r.attempts])

try_session_from(node, path, socks) ==
    LET first == new_unix_socket(node.record.pid, path, socks)
    IN  IF first.ok THEN first
        ELSE fold_children(node, path, socks, 1, first)

fold_children(node, path, socks, i, res) ==
    IF i > Len(node.children) THEN res
    ELSE IF res.ok
         THEN fold_children(node, path, socks, i + 1, res)
         ELSE LET r == try_session_from(node.children[i], Append(path, i), socks)
              IN  fold_children(node, path, socks, i + 1,
                                [r EXCEPT !.attempts = res.attempts \o r.attempts])

-----------------------------------------------------------------------------
(* vim.rs: columns of windows *)

Win_new(win) == [win |-> win, num_colums |-> 1]

\* from_window, had it taken the last cell of the window for its end.
from_window_last_cell(win, pos, width) ==
    [start |-> pos, end |-> pos + width - 1, windows |-> <<Win_new(win)>>]

\* WinColumn::from_window, given the replies to get_position and get_width.
from_window(win, pos, width) ==
    [start |-> pos, end |-> pos + width, windows |-> <<Win_new(win)>>]

\* Vec::insert(index, element), index counted from 0.
\* Vec::insert, had it overwritten the element at the index instead of
\* shifting it and the elements after it to the right.
Insert_overwriting(cols, index, column) ==
    SubSeq(cols, 1, index) \o <<column>> \o SubSeq(cols, index + 2, Len(cols))

Insert(cols, index, column) ==
    SubSeq(cols, 1, index) \o <<column>> \o SubSeq(cols, index + 1, Len(cols))

\* The inner loop of calculate_columns from (1-based) position i on: the
\* columns (one of them possibly shrunk), the new column (possibly shrunk)
\* and place_to, the Option<usize> insertion index.
RECURSIVE find_place(_, _, _)
find_place(cols, column, i) ==
    IF i > Len(cols)
    THEN [columns |-> cols, column |-> column, place_to |-> Some(Len(cols))]
    ELSE LET c == cols[i] IN
         IF c.end <= column.start
         THEN find_place(cols, column, i + 1)
         ELSE IF column.end <= c.start
         THEN [columns |-> cols, column |-> column, place_to |-> Some(i - 1)]
         ELSE IF c.start = column.start
         THEN [columns |-> [cols EXCEPT ![i].end = Min(column.end, c.end)],
               column |-> column, place_to |-> <<>>]
         ELSE IF c.end = column.end
         THEN [columns |-> [cols EXCEPT ![i].end = Min(c.end, column.start)],
               column |-> column, place_to |-> Some(i)]
         ELSE IF c.start < column.start /\ column.end > c.end
         THEN [columns |-> [cols EXCEPT ![i].end = column.start],
               column |-> column, place_to |-> Some(i)]
         ELSE IF column.start < c.start /\ c.end > column.end
         THEN [columns |-> cols, column |-> [column EXCEPT !.end = c.start],
               place_to |-> Some(i - 1)]
         ELSE [columns |-> cols, column |-> column, place_to |-> <<>>]

\* One iteration of the outer loop of calculate_columns: the columns after
\* the window's column has been placed (or merged, or ignored).
place_column(cols, column) ==
    LET p == find_place(cols, column, 1)
    IN  IF p.place_to # <<>>
        THEN Insert(p.columns, p.place_to[1], p.column)
        ELSE p.columns

\* calculate_columns over a whole list of window geometries.
RECURSIVE calculate_columns(_, _)
calculate_columns(ws, n) ==
    IF n = 0 THEN <<>>
    ELSE place_column(calculate_columns(ws, n - 1),
                      from_window(n, ws[n].start, ws[n].width))

-----------------------------------------------------------------------------
(* vim.rs: widths *)

\* What the editor can answer to the 'textwidth' query of a window's buffer.
TextWidths == {0, 78, 100}

Replies ==
    {[kind |-> "int", val |-> v] : v \in TextWidths}
    \cup {[kind |-> "nonint"], [kind |-> "err"]}

DefaultTextwidth == 80

\* win.get_buf(..).map(|buf| buf.get_option(..).map(as_i64.unwrap_or(80))
\*    .unwrap_or(80)).unwrap_or(80)
buffer_textwidth(reply) ==
    IF reply.kind = "int" THEN reply.val ELSE DefaultTextwidth

\* WinColumn::textwidth: the fold over self.windows, from position i on.
RECURSIVE textwidth_fold(_, _, _, _)
textwidth_fold(windows, opts, i, fin) ==
    IF i > Len(windows) THEN fin
    ELSE LET win == windows[i] IN
         textwidth_fold(windows, opts, i + 1,
             IF win.num_colums > 1 THEN fin
             ELSE Max(buffer_textwidth(opts[win.win]), fin))

textwidth(column, opts) == textwidth_fold(column.windows, opts, 1, 0)

\* f64::round of the non-negative rational num / den: half away from zero.
\* The widths are computed exactly, as rationals; the f64 products of the code
\* differ from them by far less than their distance to the nearest half.
Round(num, den) == (2 * num + den) \div (2 * den)

\* Vim::get_pixels_for_symbol: 8.0093 = PixelsNum / PixelsDen.
PixelsNum == 80093

PixelsDen == 10000

\* column_width_koeff is kept in tenths: 1.2 = 12 / KoeffDen.
KoeffDen == 10

DefaultKoeff == 12

RECURSIVE symbol_sum(_, _, _, _)
symbol_sum(cols, opts, k, i) ==
    IF i > Len(cols) THEN 0
    ELSE k * textwidth(cols[i], opts) + symbol_sum(cols, opts, k, i + 1)

\* get_desired_symbol_width, had it cast the sum without rounding it.
get_desired_symbol_width_truncated(cols, opts, k) ==
    symbol_sum(cols, opts, k, 1) \div KoeffDen

\* Vim::get_desired_symbol_width
get_desired_symbol_width(cols, opts, k) ==
    Round(symbol_sum(cols, opts, k, 1), KoeffDen)

\* Vim::get_desired_pixel_width
get_desired_pixel_width(cols, opts, k) ==
    Round(get_desired_symbol_width(cols, opts, k) * PixelsNum, PixelsDen)

\* current_fold, had it taken the columns for sorted and read the last end.
current_fold_last_column(cols, i, last) ==
    IF Len(cols) = 0 THEN last ELSE cols[Len(cols)].end

RECURSIVE current_fold(_, _, _)
current_fold(cols, i, last) ==
    IF i > Len(cols) THEN last
    ELSE current_fold(cols, i + 1, Max(last, cols[i].end))

\* Vim::get_current_symbol_width
get_current_symbol_width(cols) == current_fold(cols, 1, 0)

\* Vim::get_current_pixel_width
get_current_pixel_width(cols) ==
    Round(get_current_symbol_width(cols) * PixelsNum, PixelsDen)

\* i32::MAX
I32Max == 2147483647

\* `x as i32` of an i64: the value itself when it fits, else wrapped.
AsI32(x) ==
    IF -I32Max - 1 <= x /\ x <= I32Max THEN x
    ELSE ((x + I32Max + 1) % (2 * I32Max + 2)) - I32Max - 1

\* The windows whose buffers the width calculation queries.
WinsOf(cols) ==
    UNION {{cols[i].windows[j].win : j \in 1..Len(cols[i].windows)} :
             i \in 1..Len(cols)}

-----------------------------------------------------------------------------
(* The pass: Launcher::run with the command "vim sync" *)

Init ==
    /\ pc = "run"
    /\ base_window = None
    /\ nentries = 0
    /\ records = <<>>
    /\ tree = NoTree
    /\ sockets = {}
    /\ session = NoSession
    /\ nvim = "none"
    /\ wins = <<>>
    /\ columns = <<>>
    /\ bufopts = <<>>
    /\ column_width_koeff = 0
    /\ sent = <<>>
    /\ printed = <<>>
    /\ log = <<>>
    /\ result = Running

\* The pass ends, returning r (an error, a panic, or Ok).
Return(r) ==
    /\ pc' = "done"
    /\ result' = r

\* Launcher::run up to the call of the runner: the compositor socket is
\* connected and get_launching_data fetches the base window. A window is kept
\* only when its class gave launching data, which needs its pid.
Run ==
    /\ pc = "run"
    /\ \E o \in {"connect_err", "panic", "no_window", "window"} :
        CASE o = "connect_err" ->
                /\ Return(Err("connect"))
                /\ log' = Append(log, Event("connect", FALSE))
                /\ UNCHANGED base_window
          [] o = "panic" ->
                /\ Return(Panic("get_base_window"))
                /\ log' = Append(log, Event("connect", TRUE))
                /\ UNCHANGED base_window
          [] o = "no_window" ->
                /\ pc' = "sync_vim"
                /\ log' = Append(log, Event("connect", TRUE))
                /\ UNCHANGED <<base_window, result>>
          [] OTHER ->
                /\ \E id \in WindowIds, pid \in Pids :
                     base_window' = [some |-> TRUE, id |-> id, pid |-> Some(pid)]
                /\ pc' = "sync_vim"
                /\ log' = Append(log, Event("connect", TRUE))
                /\ UNCHANGED result
    /\ UNCHANGED <<nentries, records, tree, sockets, session, nvim, wins,
                   columns, bufopts, column_width_koeff, sent, printed>>

\* Launcher::sync_vim up to the call of Vim::new: the two ok_or checks.
SyncVim ==
    /\ pc = "sync_vim"
    /\ IF ~base_window.some
       THEN /\ Return(Err("base_window"))
            /\ log' = Append(log, Event("base_window", FALSE))
       ELSE IF base_window.pid = <<>>
       THEN /\ Return(Err("pid"))
            /\ log' = log \o <<Event("base_window", TRUE),
                               Event("pid", FALSE)>>
       ELSE /\ pc' = "get_process_records"
            /\ log' = log \o <<Event("base_window", TRUE),
                               Event("pid", TRUE)>>
            /\ UNCHANGED result
    /\ UNCHANGED <<base_window, nentries, records, tree, sockets, session,
                   nvim, wins, columns, bufopts, column_width_koeff, sent, printed>>

\* get_process_records: the filter_map closure on the next entry of /proc.
ReadProcEntry ==
    /\ pc = "get_process_records"
    /\ nentries < MaxProcs
    /\ \E e \in ProcEntries :
        LET r == process_entry(e) IN
        IF r.panic
        THEN /\ Return(Panic("get_process_records"))
             /\ UNCHANGED <<nentries, records>>
        ELSE /\ NoCycle(records \o r.rec)
             /\ records' = records \o r.rec
             /\ nentries' = nentries + 1
             /\ UNCHANGED <<pc, result>>
    /\ UNCHANGED <<base_window, tree, sockets, session, nvim, wins, columns,
                   bufopts, column_width_koeff, sent, printed, log>>

\* build_process_tree once /proc is exhausted: the root and populate_node.
BuildProcessTree ==
    /\ pc = "get_process_records"
    /\ tree' = [built |-> TRUE,
                root |-> build_process_tree(base_window.pid[1], records)]
    /\ pc' = "try_session_from"
    /\ UNCHANGED <<base_window, nentries, records, sockets, session, nvim,
                   wins, columns, bufopts, column_width_koeff, sent, printed,
                   log, result>>

\* Vim::new: try_session_from on the root, against the sockets that exist.
TrySessionFrom ==
    /\ pc = "try_session_from"
    /\ \E socks \in SUBSET Pids :
        LET r == try_session_from(tree.root, <<>>, socks) IN
        /\ sockets' = socks
        /\ session' = [tried |-> TRUE, ok |-> r.ok, pid |-> r.pid,
                       at |-> r.at, attempts |-> r.attempts]
        /\ log' = Append(log, Event("try_session_from", r.ok))
        /\ IF r.ok
           THEN /\ pc' = "start_event_loop"
                /\ UNCHANGED result
           ELSE Return(Err("try_session_from"))
    /\ UNCHANGED <<base_window, nentries, records, tree, nvim, wins, columns,
                   bufopts, column_width_koeff, sent, printed>>

\* Vim::new: session.start_event_loop() and Neovim::new(session). The tree
\* (a temporary) and the records are gone; the session lives in the client.
StartEventLoop ==
    /\ pc = "start_event_loop"
    /\ nvim' = "connected"
    /\ tree' = NoTree
    /\ records' = <<>>
    /\ nentries' = 0
    /\ sockets' = {}
    /\ session' = NoSession
    /\ pc' = "list_wins"
    /\ UNCHANGED <<base_window, wins, columns, bufopts, column_width_koeff,
                   sent, printed, log, result>>

\* calculate_columns: nvim.get_current_tabpage()?.list_wins(nvim)?
ListWins ==
    /\ pc = "list_wins"
    /\ \E o \in {"tabpage_err", "list_err", "ok"} :
        CASE o = "tabpage_err" ->
                /\ Return(Err("get_current_tabpage"))
                /\ log' = Append(log, Event("get_current_tabpage", FALSE))
          [] o = "list_err" ->
                /\ Return(Err("list_wins"))
                /\ log' = log \o <<Event("get_current_tabpage", TRUE),
                                   Event("list_wins", FALSE)>>
          [] OTHER ->
                /\ pc' = "from_window"
                /\ log' = log \o <<Event("get_current_tabpage", TRUE),
                                   Event("list_wins", TRUE)>>
                /\ UNCHANGED result
    /\ UNCHANGED <<base_window, nentries, records, tree, sockets, session,
                   nvim, wins, columns, bufopts, column_width_koeff, sent, printed>>

\* FromWindow, had the loop skipped a window whose query failed instead of
\* returning the error.
FromWindowSkipping(limit, maxpos) ==
    /\ pc = "from_window"
    /\ Len(wins) < limit
    /\ \E o \in {"position_err", "ok"} :
        IF o = "position_err"
        THEN /\ log' = Append(log, Event("get_position", FALSE))
             /\ UNCHANGED <<wins, columns>>
        ELSE /\ \E pos \in 0..maxpos, width \in 1..MaxWidth :
                  /\ wins' = Append(wins, [start |-> pos, width |-> width])
                  /\ columns' = place_column(columns,
                                    from_window(Len(wins) + 1, pos, width))
             /\ log' = log \o <<Event("get_position", TRUE),
                                Event("get_width", TRUE)>>
    /\ UNCHANGED <<pc, result, base_window, nentries, records, tree, sockets,
                   session, nvim, bufopts, column_width_koeff, sent, printed>>

\* calculate_columns: one iteration of `for win in wins`, for a list of at
\* most limit windows: from_window (two queries) and the placement. The list
\* holds floating windows too, so a window may start at any column and
\* overlap any other; its width is at least 1.
FromWindow(limit, maxpos) ==
    /\ pc = "from_window"
    /\ Len(wins) < limit
    /\ \E o \in {"position_err", "width_err", "ok"} :
        CASE o = "position_err" ->
                /\ Return(Err("get_position"))
                /\ log' = Append(log, Event("get_position", FALSE))
                /\ UNCHANGED <<wins, columns>>
          [] o = "width_err" ->
                /\ Return(Err("get_width"))
                /\ log' = log \o <<Event("get_position", TRUE),
                                   Event("get_width", FALSE)>>
                /\ UNCHANGED <<wins, columns>>
          [] OTHER ->
                /\ \E pos \in 0..maxpos, width \in 1..MaxWidth :
                     /\ wins' = Append(wins, [start |-> pos, width |-> width])
                     /\ columns' = place_column(columns,
                                       from_window(Len(wins) + 1, pos, width))
                /\ log' = log \o <<Event("get_position", TRUE),
                                   Event("get_width", TRUE)>>
                /\ UNCHANGED <<pc, result>>
    /\ UNCHANGED <<base_window, nentries, records, tree, sockets, session,
                   nvim, bufopts, column_width_koeff, sent, printed>>

\* calculate_columns returns Ok(columns) and Vim::new builds the Vim.
CalculateColumnsDone ==
    /\ pc = "from_window"
    /\ Len(wins) >= 1
    /\ column_width_koeff' = DefaultKoeff
    /\ pc' = "test"
    /\ UNCHANGED <<base_window, nentries, records, tree, sockets, session,
                   nvim, wins, columns, bufopts, sent, printed, log,
                   result>>

\* vim.test(): the widths are computed and printed; it cannot fail. The
\* editor answers the 'textwidth' queries here and, its options being left
\* alone during the pass, again in sync_width. The window list of
\* calculate_columns is gone.
Test ==
    /\ pc = "test"
    /\ bufopts' \in [WinsOf(columns) -> Replies]
    /\ printed' =
         [num_columns |-> Len(columns),
          desired_sym |-> get_desired_symbol_width(columns, bufopts',
                                                   column_width_koeff),
          desired_pix |-> get_desired_pixel_width(columns, bufopts',
                                                  column_width_koeff),
          current_sym |-> get_current_symbol_width(columns),
          current_pix |-> get_current_pixel_width(columns)]
    /\ wins' = <<>>
    /\ pc' = "sync_width"
    /\ UNCHANGED <<base_window, nentries, records, tree, sockets, session,
                   nvim, columns, column_width_koeff, sent, log, result>>

\* SyncWidth, had it written the request again after a failed round-trip.
SyncWidthRetrying ==
    /\ pc = "sync_width"
    /\ \E o \in {"io_err", "rejected", "ok"} :
        LET request ==
              [action |-> "SetWindowWidth",
               id |-> Some(base_window.id),
               SetFixed |-> AsI32(get_desired_pixel_width(columns, bufopts,
                                                          column_width_koeff))]
        IN  /\ sent' = IF o = "io_err" THEN sent \o <<request, request>>
                       ELSE Append(sent, request)
            /\ log' = Append(log, Event("send", o = "ok"))
            /\ Return(IF o = "ok" THEN Ok ELSE Err("send"))
    /\ UNCHANGED <<base_window, nentries, records, tree, sockets, session,
                   nvim, wins, columns, bufopts, column_width_koeff,
                   printed>>

\* Vim::sync_width: one SetWindowWidth request, then the two `?`.
SyncWidth ==
    /\ pc = "sync_width"
    /\ sent' = Append(sent,
          [action |-> "SetWindowWidth",
           id |-> Some(base_window.id),
           SetFixed |-> AsI32(get_desired_pixel_width(columns, bufopts,
                                                      column_width_koeff))])
    /\ \E o \in {"io_err", "rejected", "ok"} :
        /\ log' = Append(log, Event("send", o = "ok"))
        /\ Return(IF o = "ok" THEN Ok ELSE Err("send"))
    /\ UNCHANGED <<base_window, nentries, records, tree, sockets, session,
                   nvim, wins, columns, bufopts, column_width_koeff,
                   printed>>

Next ==
    \/ Run
    \/ SyncVim
    \/ ReadProcEntry
    \/ BuildProcessTree
    \/ TrySessionFrom
    \/ StartEventLoop
    \/ ListWins
    \/ FromWindow(MaxPassWins, MaxPos)
    \/ CalculateColumnsDone
    \/ Test
    \/ SyncWidth

Spec == Init /\ [][Next]_vars

-----------------------------------------------------------------------------
(* calculate_columns on its own: the pass from the moment the window list  *)
(* has arrived, for lists of up to MaxWins windows.                        *)

InitCluster ==
    /\ pc = "from_window"
    /\ base_window = [some |-> TRUE, id |-> 7, pid |-> Some(1)]
    /\ nentries = 0
    /\ records = <<>>
    /\ tree = NoTree
    /\ sockets = {}
    /\ session = NoSession
    /\ nvim = "connected"
    /\ wins = <<>>
    /\ columns = <<>>
    /\ bufopts = <<>>
    /\ column_width_koeff = 0
    /\ sent = <<>>
    /\ printed = <<>>
    /\ log = <<Event("connect", TRUE), Event("base_window", TRUE),
               Event("pid", TRUE), Event("try_session_from", TRUE),
               Event("get_current_tabpage", TRUE), Event("list_wins", TRUE)>>
    /\ result = Running

NextCluster ==
    \/ FromWindow(MaxWins, MaxClusterPos)
    \/ CalculateColumnsDone

SpecCluster == InitCluster /\ [][NextCluster]_vars

-----------------------------------------------------------------------------
(* Properties of session discovery *)

\* The nodes of a tree in depth-first, left-to-right pre-order, each with its
\* path from the root and its pid.
RECURSIVE Preorder(_, _)
RECURSIVE PreorderOfChildren(_, _, _)
Preorder(node, path) ==
    <<[at |-> path, pid |-> node.record.pid]>>
        \o PreorderOfChildren(node, path, 1)

PreorderOfChildren(node, path, i) ==
    IF i > Len(node.children) THEN <<>>
    ELSE Preorder(node.children[i], Append(path, i))
            \o PreorderOfChildren(node, path, i + 1)

\* The positions in the pre-order whose socket accepts a connection.
Connectable(node, socks) ==
    LET order == Preorder(node, <<>>)
    IN  {i \in 1..Len(order) : order[i].pid \in socks}

\* The node reached from the root by always taking the last child.
RECURSIVE LastPath(_)
LastPath(node) ==
    IF Len(node.children) = 0 THEN <<>>
    ELSE <<Len(node.children)>> \o LastPath(node.children[Len(node.children)])

Discovered == session.tried /\ tree.built

C6_FirstConnectable ==
    (Discovered /\ Connectable(tree.root, sockets) # {})
        => LET order == Preorder(tree.root, <<>>)
               is == Connectable(tree.root, sockets)
               first == CHOOSE i \in is : \A j \in is : i <= j
           IN  /\ session.ok
               /\ session.at = order[first].at
               /\ session.pid = order[first].pid

\* Only a grandchild of the root is connectable, and its session is returned.
C6_Witness ==
    /\ Discovered
    /\ session.ok
    /\ Len(session.at) = 2
    /\ Cardinality(Connectable(tree.root, sockets)) = 1

-----------------------------------------------------------------------------
(* Properties of process tree building *)

\* C9: build_process_tree never aborts or panics, whatever the entries of
\* /proc turn out to be when they are read.
C9_NeverPanics == result # Panic("get_process_records")

-----------------------------------------------------------------------------
(* Properties of calculate_columns *)

\* calculate_columns has returned; columns is its result for the list wins.
Returned == pc = "test" /\ Len(wins) >= 1

WinEnd(w) == w.start + w.width

Geometry(cols) == [i \in 1..Len(cols) |-> <<cols[i].start, cols[i].end>>]

\* Each column taken as a window of the same start and end.
AsWindows(cols) ==
    [i \in 1..Len(cols) |->
        [start |-> cols[i].start, width |-> cols[i].end - cols[i].start]]

\* The intervals [start, start + width) of the windows are pairwise disjoint.
PairwiseDisjoint(ws) ==
    \A i, j \in 1..Len(ws) :
        i # j => (WinEnd(ws[i]) <= ws[j].start \/ WinEnd(ws[j]) <= ws[i].start)

\* C2: two windows with the same start, in either order, give exactly one
\* column with that start, the smaller end, and the larger of the two
\* windows' text-wrap columns in the width calculation.
C2_SameStartMerge ==
    (Returned /\ Len(wins) = 2 /\ wins[1].start = wins[2].start)
        => /\ Len(columns) = 1
           /\ columns[1].start = wins[1].start
           /\ columns[1].end = Min(WinEnd(wins[1]), WinEnd(wins[2]))
           /\ \A opts \in [1..2 -> Replies] :
                 textwidth(columns[1], opts)
                     = Max(buffer_textwidth(opts[1]), buffer_textwidth(opts[2]))

\* C3: two windows with the same end and different starts, in either order,
\* give exactly the two adjacent columns [min start, s) and [s, end), s being
\* the larger start.
C3_SameEndSplit ==
    (/\ Returned
     /\ Len(wins) = 2
     /\ WinEnd(wins[1]) = WinEnd(wins[2])
     /\ wins[1].start # wins[2].start)
        => LET lo == Min(wins[1].start, wins[2].start)
               s == Max(wins[1].start, wins[2].start)
           IN  Geometry(columns) = << <<lo, s>>, <<s, WinEnd(wins[1])>> >>

\* C4: clustering the columns of a result again, each as one window, gives
\* the same sequence of columns (same length, same start and end per index).
C4_Idempotent ==
    Returned
        => Geometry(calculate_columns(AsWindows(columns), Len(columns)))
              = Geometry(columns)

\* C5: windows of positive width whose intervals are pairwise disjoint, in any
\* order, give exactly one column per window, with the window's own start and
\* end and with the text-wrap column of that window alone.
C5_DisjointPreserved ==
    (Returned /\ PairwiseDisjoint(wins))
        => /\ Len(columns) = Len(wins)
           /\ \A k \in 1..Len(wins) :
                \E i \in 1..Len(columns) :
                    /\ columns[i].start = wins[k].start
                    /\ columns[i].end = WinEnd(wins[k])
                    /\ \A own, other \in Replies :
                          textwidth(columns[i],
                                    [w \in 1..Len(wins) |->
                                        IF w = k THEN own ELSE other])
                              = buffer_textwidth(own)

\* Three disjoint windows, listed out of spatial order, have been clustered.
C5_Witness ==
    /\ Returned
    /\ Len(wins) = 3
    /\ PairwiseDisjoint(wins)
    /\ wins[1].start > wins[2].start
    /\ Len(columns) = 3

-----------------------------------------------------------------------------
(* Properties of the pass as a whole *)

Count(op, ok) == Cardinality({i \in 1..Len(log) : log[i] = Event(op, ok)})

\* The fallible steps that come before the resize, once per pass or per window.
OnceSteps ==
    {"base_window", "pid", "try_session_from", "get_current_tabpage",
     "list_wins"}

WindowSteps == {"get_position", "get_width"}

\* C7: the SetWindowWidth action is sent only after the base window and pid,
\* discovery, the window list and every per-window query have succeeded; a
\* failure of any of them ends the pass with that error, with nothing sent and
\* no step taken again.
C7_NoPartialSuccess ==
    /\ \A i \in 1..Len(log) :
          (log[i].op \in OnceSteps \cup WindowSteps /\ ~log[i].ok)
             => /\ i = Len(log)
                /\ pc = "done"
                /\ result = Err(log[i].op)
                /\ sent = <<>>
    /\ \A op \in OnceSteps : Count(op, TRUE) + Count(op, FALSE) <= 1
    /\ sent # <<>>
          => /\ \A op \in OnceSteps : Count(op, TRUE) = 1
             /\ \A op \in WindowSteps : Count(op, FALSE) = 0
             /\ Count("get_position", TRUE) >= 1
             /\ Count("get_position", TRUE) = Count("get_width", TRUE)
    /\ result.state \in {"err", "panic"} /\ result # Err("send")
          => sent = <<>>

\* The width query of the second window failed: the pass returned that error.
C7_Witness ==
    /\ pc = "done"
    /\ result = Err("get_width")
    /\ Count("get_width", TRUE) = 1
    /\ sent = <<>>

\* C8: a pass whose discovery and collection succeeded sends exactly one
\* SetWindowWidth, to the base window's id, with the desired pixel width of
\* the collected columns; a failed round-trip or a rejection is returned and
\* nothing is sent again.
C8_ExactlyOneResize ==
    /\ Len(sent) <= 1
    /\ (/\ pc = "done"
        /\ Count("try_session_from", TRUE) = 1
        /\ Count("list_wins", TRUE) = 1
        /\ \A op \in WindowSteps : Count(op, FALSE) = 0)
          => /\ Len(sent) = 1
             /\ sent[1].action = "SetWindowWidth"
             /\ sent[1].id = Some(base_window.id)
             /\ sent[1].SetFixed = printed.desired_pix
             /\ Count("send", TRUE) + Count("send", FALSE) = 1
             /\ result = IF Count("send", TRUE) = 1 THEN Ok ELSE Err("send")

\* The compositor refused the one request: the error came back to the caller.
C8_Witness ==
    /\ pc = "done"
    /\ result = Err("send")
    /\ Len(sent) = 1
    /\ Len(columns) = 2

-----------------------------------------------------------------------------
(* Properties of the width calculation *)

RECURSIVE SeqSum(_)
SeqSum(q) == IF q = <<>> THEN 0 ELSE q[1] + SeqSum(Tail(q))

\* The text-wrap column of each column, as the calculation sees it.
TextWraps == [i \in 1..Len(columns) |-> textwidth(columns[i], bufopts)]

\* r is num / den rounded to the nearest integer, halves upwards.
IsRounded(r, num, den) ==
    /\ 2 * den * r - den <= 2 * num
    /\ 2 * num < 2 * den * r + den

\* C10: the desired symbol width is round(sum of coefficient * text-wrap
\* column), 216 for text-wrap columns 80 and 100 under 1.2 and 0 for no
\* columns, and the desired pixel width is round(symbol width * 8.0093).
C10_DesiredWidth ==
    /\ printed # <<>>
          => /\ IsRounded(printed.desired_sym,
                          column_width_koeff * SeqSum(TextWraps), KoeffDen)
             /\ IsRounded(printed.desired_pix,
                          printed.desired_sym * PixelsNum, PixelsDen)
             /\ TextWraps = <<80, 100>> => printed.desired_sym = 216
             /\ column_width_koeff * KoeffDen = 120
    /\ get_desired_symbol_width(<<>>, <<>>, DefaultKoeff) = 0

\* Text-wrap columns 80 (the default) and 100 gave 216 symbols.
C10_Witness ==
    /\ printed # <<>>
    /\ TextWraps = <<80, 100>>
    /\ printed.desired_sym = 216

\* The largest end among the columns.
MaxEnd(cols) ==
    LET ends == {cols[i].end : i \in 1..Len(cols)}
    IN  CHOOSE m \in ends : \A e \in ends : e <= m

\* A column with the given end, for the worked example of C11.
ColumnEnding(end) == [start |-> 0, end |-> end, windows |-> <<Win_new(1)>>]

\* C11: the current symbol width is the largest column.end whatever the order
\* of the columns (120 for ends 50, 120, 90), and 0 for no columns.
C11_CurrentWidth ==
    /\ printed # <<>> => printed.current_sym = MaxEnd(columns)
    /\ get_current_symbol_width(
          <<ColumnEnding(50), ColumnEnding(120), ColumnEnding(90)>>) = 120
    /\ get_current_symbol_width(<<>>) = 0

\* The width of a layout of two columns has been computed.
C11_Witness ==
    /\ printed # <<>>
    /\ Len(columns) = 2
    /\ columns[1].end < columns[2].end
    /\ printed.current_sym = columns[2].end

-----------------------------------------------------------------------------
(* Invariants claimed of the columns *)

\* C12: whatever windows of positive width have been processed, in whatever
\* order, any two distinct columns a and b have a.end <= b.start or
\* b.end <= a.start.
C12_NonOverlapping ==
    \A i, j \in 1..Len(columns) :
        i # j => \/ columns[i].end <= columns[j].start
                 \/ columns[j].end <= columns[i].start

\* C13: at every step of the clustering and in its result, every column has
\* start < end.
C13_WellFormed ==
    \A i \in 1..Len(columns) : columns[i].start < columns[i].end

\* C14: after any sequence of windows the columns are ordered left to right:
\* columns[i].start < columns[i+1].start for every adjacent pair.
C14_Ordered ==
    \A i \in 1..(Len(columns) - 1) : columns[i].start < columns[i + 1].start

-----------------------------------------------------------------------------
(* The text-wrap column of a column *)

\* C15: the text-wrap column the width calculation uses for a column is always
\* greater than 0: a buffer whose option is unset (the editor reports 0), is
\* not an integer, or cannot be queried counts as 80.
C15_PositiveTextwidth ==
    printed # <<>> =>
        \A i \in 1..Len(columns) :
            /\ textwidth(columns[i], bufopts) > 0
            /\ \A j \in 1..Len(columns[i].windows) :
                 LET reply == bufopts[columns[i].windows[j].win] IN
                 (reply.kind # "int" \/ reply.val = 0) =>
                     buffer_textwidth(reply) = DefaultTextwidth

-----------------------------------------------------------------------------
(* The steps of calculate_columns *)

\* This step handed one more window to calculate_columns.
WindowStep == Len(wins') = Len(wins) + 1

\* The window handed over by this step, as the interval [start, end).
Candidate == [start |-> wins'[Len(wins')].start,
              end |-> WinEnd(wins'[Len(wins')])]

Overlaps(a, b) == a.start < b.end /\ b.start < a.end

StrictlyInside(a, b) == b.start < a.start /\ a.end < b.end

\* The positions of the columns the interval overlaps.
Overlapped(cols, w) == {i \in 1..Len(cols) : Overlaps(cols[i], w)}

FirstOf(S) == CHOOSE i \in S : \A j \in S : i <= j

\* C16: when the first existing column the window overlaps either strictly
\* contains the window or lies strictly inside it, the step inserts nothing:
\* the number of columns and every column's start and end stay as they were.
\* (The first column in the order of the set; overlap is of the intervals.)
C16_IrregularDrop ==
    [][(WindowStep /\ Overlapped(columns, Candidate) # {})
          => LET c == columns[FirstOf(Overlapped(columns, Candidate))]
             IN  (StrictlyInside(Candidate, c) \/ StrictlyInside(c, Candidate))
                    => Geometry(columns') = Geometry(columns)]_vars

-----------------------------------------------------------------------------
(* The order of the connection attempts *)

\* The pid of the node at a path of the tree.
PidAt(order, path) ==
    order[CHOOSE i \in 1..Len(order) : order[i].at = path].pid

\* C17: try_session_from tries the nodes in depth-first, left-to-right
\* pre-order (a node before its descendants, a child after its parent and all
\* earlier siblings' subtrees), each node at most once, and stops at the first
\* attempt that succeeds: the attempts are never more than the nodes of the
\* tree and at most one of them, the last, opened a session.
C17_AttemptOrder ==
    Discovered =>
        LET order == Preorder(tree.root, <<>>)
            is == Connectable(tree.root, sockets)
            n == IF is = {} THEN Len(order) ELSE FirstOf(is)
            tried == session.attempts
        IN  /\ tried = [i \in 1..n |-> order[i].at]
            /\ \A i, j \in 1..Len(tried) : i # j => tried[i] # tried[j]
            /\ Len(tried) <= Len(order)
            /\ \A i \in 1..Len(tried) :
                  PidAt(order, tried[i]) \in sockets
                      => (i = Len(tried) /\ session.ok)

\* The second child of the root gave the session after the root and the first
\* child failed.
C17_Witness ==
    /\ Discovered
    /\ session.ok
    /\ session.attempts = << <<>>, <<1>>, <<2>> >>

-----------------------------------------------------------------------------
(* The tree that build_process_tree returns *)

\* The tree is built and the records it was built from are still at hand.
Built == tree.built /\ pc = "try_session_from"

RecordPids == {records[i].pid : i \in 1..Len(records)}

\* The root pid is the pid of none of the records read.
UnknownRoot == Built /\ tree.root.record.pid \notin RecordPids

\* The records naming the pid as their parent, in the order they were read.
NamingAsParent(pid) == SelectSeq(records, LAMBDA r : r.ppid = pid)

\* C18 as stated: when the root pid is the pid of no record read, the tree's
\* root carries that pid and parent -1 and has no children.
C18_UnknownRootNoChildren ==
    UnknownRoot
        => /\ tree.root.record = ProcessRecord(base_window.pid[1], -1)
           /\ tree.root.children = <<>>

\* C18 amended: when the root pid is the pid of no record read, the tree's
\* root carries that pid and parent -1, and its children are the processes of
\* the records naming the root pid as their parent, one child per such record
\* in the order read; the root has no children only when no record names it.
C18_UnknownRootChildren ==
    UnknownRoot
        => LET root == tree.root
               named == NamingAsParent(root.record.pid)
           IN  /\ root.record = ProcessRecord(base_window.pid[1], -1)
               /\ Len(root.children) = Len(named)
               /\ \A i \in 1..Len(named) :
                     root.children[i].record.pid = named[i].pid
               /\ (root.children = <<>>) <=> (named = <<>>)

\* A root without a record of its own whose child has a child.
C18_Witness ==
    /\ UnknownRoot
    /\ Len(tree.root.children) = 1
    /\ Len(tree.root.children[1].children) = 1

\* Every child's record names the pid of the node it hangs under.
RECURSIVE ParentLinks(_)
ParentLinks(node) ==
    \A i \in 1..Len(node.children) :
        /\ node.children[i].record.ppid = node.record.pid
        /\ ParentLinks(node.children[i])

\* The records transitively descended from pid.
Descended(pid) ==
    {i \in 1..Len(records) :
        pid \in AncestorsOf(records, {records[i].ppid}, Len(records))}

\* C19: over records none of which is its own ancestor, the tree's non-root
\* nodes are exactly the records transitively descended from the root pid,
\* each once, and each node's record names its tree parent's pid as parent.
C19_TreeIsDescendants ==
    Built =>
        LET order == Preorder(tree.root, <<>>)
            nodes == 2..Len(order)
        IN  /\ ParentLinks(tree.root)
            /\ {order[i].pid : i \in nodes}
                  = {records[i].pid : i \in Descended(tree.root.record.pid)}
            /\ \A i, j \in nodes : i # j => order[i].pid # order[j].pid
            /\ Len(order) - 1 = Cardinality(Descended(tree.root.record.pid))

-----------------------------------------------------------------------------
(* What one window can do to the columns *)

\* The sequence without its k-th element.
Without(s, k) == SubSeq(s, 1, k - 1) \o SubSeq(s, k + 1, Len(s))

\* new holds the columns of old in the same order, each with its start and
\* with an end no greater than before, and at most one of them with another
\* end than before.
Kept(old, new) ==
    /\ Len(new) = Len(old)
    /\ \A i \in 1..Len(old) :
          new[i].start = old[i].start /\ new[i].end <= old[i].end
    /\ Cardinality({i \in 1..Len(old) : new[i].end # old[i].end}) <= 1

\* C20: a window handed to calculate_columns changes no column's start,
\* increases no column's end, removes no column, changes at most one existing
\* column and inserts at most one column; the first window is always
\* inserted, so after n >= 1 windows there are between 1 and n columns.
C20_MonotoneBounded ==
    [][WindowStep =>
          /\ \/ Kept(columns, columns')
             \/ \E k \in 1..Len(columns') : Kept(columns, Without(columns', k))
          /\ Len(wins) = 0 => Len(columns') = 1
          /\ 1 <= Len(columns') /\ Len(columns') <= Len(wins')]_vars

\* The second window shrank the first window's column and was inserted.
C20_Witness ==
    /\ Len(wins) = 2
    /\ Len(columns) = 2
    /\ columns[1].start = wins[1].start
    /\ columns[1].end < WinEnd(wins[1])

=============================================================================
